---------------------------- MODULE Spec2Model ----------------------------
(***************************************************************************)
(* Model of tensorflow/lite/micro/tools/requantize_flatbuffer_utils.py:    *)
(* the int8 -> int16 requantization of a TFLite model graph.               *)
(*                                                                         *)
(* The program computes in IEEE-754 binary64 (Python float / np.float64)   *)
(* and stores biases as 64-bit integers.  TLC's integers are 32 bits wide, *)
(* so naturals are kept as little-endian sequences of 15-bit limbs and a   *)
(* float is a sign, a 53-bit significand and a binary exponent, with the   *)
(* operations rounded to nearest-even exactly as the hardware rounds them. *)
(***************************************************************************)
EXTENDS Integers, Sequences, FiniteSets, TLC

(***************************************************************************)
(* Arbitrary-precision naturals: <<l1, ..., ln>> stands for                *)
(* l1 + l2*B + ... + ln*B^(n-1), with ln # 0; zero is << >>.               *)
(***************************************************************************)
B == 2 ^ 15

\* F applied to the values of its arguments, each evaluated once: an operator
\* that reads a parameter several times wraps its body so, to keep TLC from
\* evaluating the argument expression anew at every reading
Once1(a, F(_)) == CHOOSE r \in {F(x) : x \in {a}} : TRUE
Once2(a, b, F(_, _)) == CHOOSE r \in {F(x, y) : x \in {a}, y \in {b}} : TRUE
Once3(a, b, c, F(_, _, _)) ==
  CHOOSE r \in {F(x, y, z) : x \in {a}, y \in {b}, z \in {c}} : TRUE
Once4(a, b, c, d, F(_, _, _, _)) ==
  CHOOSE r \in {F(x, y, z, w) : x \in {a}, y \in {b}, z \in {c}, w \in {d}} : TRUE

RECURSIVE BNormV(_)
BNormV(a) ==
  IF a = << >> THEN << >>
  ELSE IF a[Len(a)] = 0 THEN BNormV(SubSeq(a, 1, Len(a) - 1))
  ELSE a

BNorm(a) == Once1(a, BNormV)

\* limb i of a, 0 beyond its length
Limb(a, i) == IF i > Len(a) THEN 0 ELSE a[i]

\* a + b + c from limb i on, for a carry c
RECURSIVE BAddFrom(_, _, _, _)
BAddFrom(a, b, i, c) ==
  IF i > Len(a) /\ i > Len(b) THEN (IF c = 0 THEN << >> ELSE <<c>>)
  ELSE Once1(Limb(a, i) + Limb(b, i) + c,
             LAMBDA x : <<x % B>> \o BAddFrom(a, b, i + 1, x \div B))

BAdd(a, b) == Once2(a, b, LAMBDA x, y : BAddFrom(x, y, 1, 0))

\* a - b - c from limb i on, for a borrow c and a >= b
RECURSIVE BSubFrom(_, _, _, _)
BSubFrom(a, b, i, c) ==
  IF i > Len(a) THEN << >>
  ELSE Once1(Limb(a, i) - Limb(b, i) - c,
             LAMBDA x : IF x < 0 THEN <<x + B>> \o BSubFrom(a, b, i + 1, 1)
                        ELSE <<x>> \o BSubFrom(a, b, i + 1, 0))

BSub(a, b) == Once2(a, b, LAMBDA x, y : BNormV(BSubFrom(x, y, 1, 0)))

\* a * k + c from limb i on, for 0 <= k < B and a carry c
RECURSIVE BMulSmallFrom(_, _, _, _)
BMulSmallFrom(a, k, i, c) ==
  IF i > Len(a) THEN (IF c = 0 THEN << >> ELSE <<c>>)
  ELSE Once1(a[i] * k + c,
             LAMBDA x : <<x % B>> \o BMulSmallFrom(a, k, i + 1, x \div B))

BMulSmall(a, k, c) ==
  Once3(a, k, c, LAMBDA x, y, z : BMulSmallFrom(x, y, 1, z))

BShiftLimb(a) == Once1(a, LAMBDA x : IF x = << >> THEN << >> ELSE <<0>> \o x)

\* a times the limbs of b from limb i on
RECURSIVE BMulFrom(_, _, _)
BMulFrom(a, b, i) ==
  IF i > Len(b) THEN << >>
  ELSE BAdd(BNorm(BMulSmallFrom(a, b[i], 1, 0)),
            BShiftLimb(BMulFrom(a, b, i + 1)))

BMul(a, b) ==
  Once2(a, b, LAMBDA x, y : IF x = << >> THEN << >> ELSE BMulFrom(x, y, 1))

\* -1, 0, 1 as a < b, a = b, a > b
RECURSIVE BCmpTop(_, _, _)
BCmpTop(a, b, i) ==
  IF i = 0 THEN 0
  ELSE IF a[i] < b[i] THEN -1
  ELSE IF a[i] > b[i] THEN 1
  ELSE BCmpTop(a, b, i - 1)

BCmp(a, b) ==
  Once2(a, b, LAMBDA x, y :
    IF Len(x) < Len(y) THEN -1
    ELSE IF Len(x) > Len(y) THEN 1
    ELSE BCmpTop(x, y, Len(x)))

RECURSIVE BitLenSmall(_)
BitLenSmall(x) == IF x = 0 THEN 0 ELSE 1 + BitLenSmall(x \div 2)

BBitLen(a) ==
  Once1(a, LAMBDA x :
    IF x = << >> THEN 0
    ELSE (Len(x) - 1) * 15 + BitLenSmall(x[Len(x)]))

BBitV(a, i) ==
  IF (i \div 15) + 1 > Len(a) THEN 0
  ELSE (a[(i \div 15) + 1] \div (2 ^ (i % 15))) % 2

BZeros(n) == [i \in 1..n |-> 0]

BShl(a, k) ==
  Once2(a, k, LAMBDA x, y :
    IF x = << >> THEN << >>
    ELSE BNorm(BZeros(y \div 15)
               \o BMulSmallFrom(x, 2 ^ (y % 15), 1, 0)))

\* floor(a / d) for 0 < d < B over the limbs down from limb i, with r the
\* remainder carried from above
RECURSIVE BDivSmallTop(_, _, _, _)
BDivSmallTop(a, d, i, r) ==
  IF i = 0 THEN << >>
  ELSE Once1(r * B + a[i],
             LAMBDA x : BDivSmallTop(a, d, i - 1, x % d) \o <<x \div d>>)

BShr(a, k) ==
  Once2(a, k, LAMBDA x, y :
    IF y \div 15 >= Len(x) THEN << >>
    ELSE Once1(SubSeq(x, (y \div 15) + 1, Len(x)),
               LAMBDA t : BNorm(BDivSmallTop(t, 2 ^ (y % 15), Len(t), 0))))

\* whether the k low bits of a are all zero
BLowZero(a, k) ==
  Once2(a, k, LAMBDA x, y : \A i \in 0..(y - 1) : BBitV(x, i) = 0)

BOne == <<1>>
BPow2(k) == BShl(BOne, k)
BFromNat(n) ==
  Once1(n, LAMBDA x : BNormV(<<x % B, (x \div B) % B, x \div (B * B)>>))

\* the largest t with t >= qd, t < qd + 2^(bit+1) and d * t <= r
RECURSIVE BQuotLimb(_, _, _, _)
BQuotLimb(r, d, qd, bit) ==
  IF bit < 0 THEN qd
  ELSE IF BCmp(BMulSmallFrom(d, qd + 2 ^ bit, 1, 0), r) <= 0
       THEN BQuotLimb(r, d, qd + 2 ^ bit, bit - 1)
       ELSE BQuotLimb(r, d, qd, bit - 1)

\* long division of the i low limbs of n by d, with r the remainder so far:
\* <<quotient limbs, remainder>>
RECURSIVE BDivLimbs(_, _, _, _)
BDivLimbs(n, d, i, r) ==
  IF i = 0 THEN <<<< >>, r>>
  ELSE Once1(BNorm(<<n[i]>> \o r), LAMBDA r1 :
         Once1(BQuotLimb(r1, d, 0, 15 - 1), LAMBDA qd :
           Once1(BDivLimbs(n, d, i - 1, BSub(r1, BMulSmallFrom(d, qd, 1, 0))),
                 LAMBDA lo : <<lo[1] \o <<qd>>, lo[2]>>)))

\* <<floor(n / d), n mod d>> for d # 0
BDivMod(n, d) ==
  Once2(n, d, LAMBDA x, y :
    Once1(BDivLimbs(x, y, Len(x), << >>), LAMBDA qr : <<BNorm(qr[1]), qr[2]>>))

(***************************************************************************)
(* IEEE-754 binary64.  A finite value is (-1)^s * m * 2^e with the         *)
(* significand m a natural below 2^53: a normal number has                 *)
(* 2^52 <= m < 2^53, a subnormal has e = -1074, and zero is m = << >>,     *)
(* e = 0.  The sign of zero is not kept: no operation of the program       *)
(* tells -0.0 from 0.0 in what it stores.                                  *)
(***************************************************************************)
Fin(s, m, e) == [k |-> "fin", s |-> s, m |-> m, e |-> e]
FZero == Fin(0, << >>, 0)
FInf(s) == [k |-> "inf", s |-> s, m |-> << >>, e |-> 0]
FNaN == [k |-> "nan", s |-> 0, m |-> << >>, e |-> 0]

\* mm * 2^ee with sh > 0 low bits to drop: the significand rounded to
\* nearest, ties to even, and its exponent
FRoundDrop(s, mm, e1, sh, sticky) ==
  Once1(BShr(mm, sh), LAMBDA q :
    Once1(IF BBitV(mm, sh - 1) = 1
             /\ (sticky \/ ~BLowZero(mm, sh - 1) \/ BBitV(q, 0) = 1)
          THEN BAdd(q, BOne) ELSE q,
          LAMBDA m1 :
            IF m1 = << >> THEN FZero
            ELSE IF BBitLen(m1) = 54
                 THEN (IF e1 + 1 + 53 > 1024 THEN FInf(s)
                       ELSE Fin(s, BShr(m1, 1), e1 + 1))
            ELSE IF e1 + BBitLen(m1) > 1024 THEN FInf(s)
            ELSE Fin(s, m1, e1)))

\* (-1)^s * (mm * 2^ee, plus a little when sticky) rounded to nearest, ties
\* to even; a caller that sets sticky passes at least 55 bits of mm
FRoundV(s, mm, ee, sticky) ==
  IF mm = << >> THEN FZero
  ELSE Once1(IF ee + BBitLen(mm) - 53 > -1074 THEN ee + BBitLen(mm) - 53
             ELSE -1074,
             LAMBDA e1 :
               IF e1 - ee <= 0
               THEN (IF e1 + 53 > 1024 THEN FInf(s)
                     ELSE Fin(s, BShl(mm, ee - e1), e1))
               ELSE FRoundDrop(s, mm, e1, e1 - ee, sticky))

FRound(s, mm, ee, sticky) == Once4(s, mm, ee, sticky, FRoundV)

\* a Python int (here within 32 bits) as a float: exact
FFromInt(n) ==
  Once1(n, LAMBDA x :
    IF x >= 0 THEN FRoundV(0, BFromNat(x), 0, FALSE)
    ELSE FRound(1, BAdd(BFromNat(-(x + 1)), BOne), 0, FALSE))

FIsZero(a) == Once1(a, LAMBDA x : x.k = "fin" /\ x.m = << >>)
SXor(s, t) == (s + t) % 2

FMulV(a, b) ==
  IF a.k = "nan" \/ b.k = "nan" THEN FNaN
  ELSE IF a.k = "inf" \/ b.k = "inf"
       THEN (IF FIsZero(a) \/ FIsZero(b) THEN FNaN ELSE FInf(SXor(a.s, b.s)))
  ELSE FRound(SXor(a.s, b.s), BMul(a.m, b.m), a.e + b.e, FALSE)

FMul(a, b) == Once2(a, b, FMulV)

\* the quotient of two finite values that are not zero
FDivFinite(a, b) ==
  Once1(IF 56 + BBitLen(b.m) - BBitLen(a.m) > 0
        THEN 56 + BBitLen(b.m) - BBitLen(a.m) ELSE 0,
        LAMBDA sh :
          Once1(BDivMod(BShl(a.m, sh), b.m), LAMBDA qr :
            FRoundV(SXor(a.s, b.s), qr[1], a.e - b.e - sh, qr[2] # << >>)))

\* numpy's true division: x/0 is inf, 0/0 is nan (a warning, no exception)
FDivV(a, b) ==
  IF a.k = "nan" \/ b.k = "nan" THEN FNaN
  ELSE IF a.k = "inf"
       THEN (IF b.k = "inf" THEN FNaN ELSE FInf(SXor(a.s, b.s)))
  ELSE IF b.k = "inf" THEN FZero
  ELSE IF FIsZero(b)
       THEN (IF FIsZero(a) THEN FNaN ELSE FInf(SXor(a.s, b.s)))
  ELSE IF FIsZero(a) THEN FZero
  ELSE FDivFinite(a, b)

FDiv(a, b) == Once2(a, b, FDivV)

\* -1, 0, 1 for the magnitudes of two finite values
FMagCmp(a, b) ==
  IF a.m = << >> /\ b.m = << >> THEN 0
  ELSE IF a.m = << >> THEN -1
  ELSE IF b.m = << >> THEN 1
  ELSE Once2(a.e + BBitLen(a.m), b.e + BBitLen(b.m), LAMBDA ta, tb :
         IF ta < tb THEN -1
         ELSE IF ta > tb THEN 1
         ELSE IF a.e >= b.e THEN BCmp(BShl(a.m, a.e - b.e), b.m)
         ELSE BCmp(a.m, BShl(b.m, b.e - a.e)))

FSgn(a) == Once1(a, LAMBDA x : IF FIsZero(x) THEN 0 ELSE IF x.s = 1 THEN -1 ELSE 1)

\* -1, 0, 1 for two values that are not nan
FCmpV(a, b) ==
  IF FSgn(a) # FSgn(b) THEN (IF FSgn(a) < FSgn(b) THEN -1 ELSE 1)
  ELSE IF FSgn(a) = 0 THEN 0
  ELSE Once1(IF a.k = "inf" THEN (IF b.k = "inf" THEN 0 ELSE 1)
             ELSE IF b.k = "inf" THEN -1
             ELSE FMagCmp(a, b),
             LAMBDA c : IF a.s = 1 THEN -c ELSE c)

\* comparisons with a nan are false
FGt(a, b) ==
  Once2(a, b, LAMBDA x, y : x.k # "nan" /\ y.k # "nan" /\ FCmpV(x, y) > 0)
FLt(a, b) ==
  Once2(a, b, LAMBDA x, y : x.k # "nan" /\ y.k # "nan" /\ FCmpV(x, y) < 0)

FAbs(a) == Once1(a, LAMBDA x : [x EXCEPT !.s = 0])

\* the sum of two finite values that are not zero, their exponents at most
\* 120 apart
FAddFinite(a, b) ==
  Once1(IF a.e < b.e THEN a.e ELSE b.e, LAMBDA lo :
    Once2(BShl(a.m, a.e - lo), BShl(b.m, b.e - lo), LAMBDA x, y :
      IF a.s = b.s THEN FRound(a.s, BAdd(x, y), lo, FALSE)
      ELSE IF BCmp(x, y) = 0 THEN FZero
      ELSE IF BCmp(x, y) > 0 THEN FRound(a.s, BSub(x, y), lo, FALSE)
      ELSE FRound(b.s, BSub(y, x), lo, FALSE)))

FAddV(a, b) ==
  IF a.k = "nan" \/ b.k = "nan" THEN FNaN
  ELSE IF a.k = "inf"
       THEN (IF b.k = "inf" /\ b.s # a.s THEN FNaN ELSE a)
  ELSE IF b.k = "inf" THEN b
  ELSE IF FIsZero(a) THEN b
  ELSE IF FIsZero(b) THEN a
  ELSE IF a.e - b.e > 120 THEN a
  ELSE IF b.e - a.e > 120 THEN b
  ELSE FAddFinite(a, b)

FAdd(a, b) == Once2(a, b, FAddV)

\* np.round(x) with no decimals is rint: to the nearest integer, ties to even
FRintV(a) ==
  IF a.k # "fin" \/ a.e >= 0 THEN a
  ELSE Once1(BShr(a.m, -a.e), LAMBDA q :
         FRound(a.s,
                IF BBitV(a.m, -a.e - 1) = 1
                   /\ (~BLowZero(a.m, -a.e - 1) \/ BBitV(q, 0) = 1)
                THEN BAdd(q, BOne) ELSE q,
                0, FALSE))

FRint(a) == Once1(a, FRintV)

(***************************************************************************)
(* Integers wider than TLC's: [s, m] is (-1)^s * m, zero with s = 0.       *)
(***************************************************************************)
SInt(s, m) == Once2(s, m, LAMBDA x, y : [s |-> IF y = << >> THEN 0 ELSE x, m |-> y])
SFromInt(n) ==
  Once1(n, LAMBDA x :
    IF x >= 0 THEN SInt(0, BFromNat(x))
    ELSE SInt(1, BAdd(BFromNat(-(x + 1)), BOne)))

SAddV(a, b) ==
  IF a.s = b.s THEN SInt(a.s, BAdd(a.m, b.m))
  ELSE IF BCmp(a.m, b.m) >= 0 THEN SInt(a.s, BSub(a.m, b.m))
  ELSE SInt(b.s, BSub(b.m, a.m))

SAdd(a, b) == Once2(a, b, SAddV)
SNeg(a) == Once1(a, LAMBDA x : SInt(1 - x.s, x.m))
SSub(a, b) == SAdd(a, SNeg(b))
SCmp(a, b) ==
  Once2(a, b, LAMBDA x, y :
    IF x.s # y.s THEN (IF x.s = 1 THEN -1 ELSE 1)
    ELSE IF x.s = 0 THEN BCmp(x.m, y.m) ELSE BCmp(y.m, x.m))

IntMin(bits) == SInt(1, BPow2(bits - 1))
IntMax(bits) == SInt(0, BSub(BPow2(bits - 1), BOne))
InIntRange(x, bits) ==
  Once2(x, bits, LAMBDA v, n :
    SCmp(v, IntMin(n)) >= 0 /\ SCmp(v, IntMax(n)) <= 0)

\* x mod 2^bits as a natural
BModPow2(m, bits) ==
  Once2(m, bits, LAMBDA x, n : BSub(x, BShl(BShr(x, n), n)))
SUnsigned(x, bits) ==
  Once2(x, bits, LAMBDA v, n :
    Once1(BModPow2(v.m, n), LAMBDA r :
      IF v.s = 0 \/ r = << >> THEN r ELSE BSub(BPow2(n), r)))

\* two's-complement wraparound of x to a signed integer of this width
SWrap(x, bits) ==
  Once2(SUnsigned(x, bits), bits, LAMBDA u, n :
    IF BCmp(u, BPow2(n - 1)) >= 0 THEN SInt(1, BSub(BPow2(n), u))
    ELSE SInt(0, u))

FFromS(x) == Once1(x, LAMBDA v : FRoundV(v.s, v.m, 0, FALSE))

\* the integer value of a float that holds one
FIsInteger(a) ==
  Once1(a, LAMBDA x : x.k = "fin" /\ (x.e >= 0 \/ BLowZero(x.m, -x.e)))
FToS(a) ==
  Once1(a, LAMBDA x :
    SInt(x.s, IF x.e >= 0 THEN BShl(x.m, x.e) ELSE BShr(x.m, -x.e)))

\* little-endian bytes <-> naturals
RECURSIVE BFromBytesFrom(_, _)
BFromBytesFrom(bs, i) ==
  IF i > Len(bs) THEN << >> ELSE BMulSmall(BFromBytesFrom(bs, i + 1), 256, bs[i])

BFromBytes(bs) == Once1(bs, LAMBDA x : BFromBytesFrom(x, 1))

BToBytes(u, n) ==
  Once2(u, n, LAMBDA x, k :
    [i \in 1..k |->
       Once1(BShr(x, 8 * (i - 1)), LAMBDA t : IF t = << >> THEN 0 ELSE t[1] % 256)])

(***************************************************************************)
(* The program.  A Python list is a sequence read through PyAt, which      *)
(* indexes from 0 and counts a negative index from the end.  A numpy array *)
(* is [dtype, v]; an exception leaves the function with err set.           *)
(***************************************************************************)
PyAt(list, i) == list[IF i < 0 THEN Len(list) + i + 1 ELSE i + 1]
PySet(list, i, x) ==
  [list EXCEPT ![IF i < 0 THEN Len(list) + i + 1 ELSE i + 1] = x]

\* TENSOR_TYPE_CODE[np.<dtype>]: the flatbuffer type code of a numpy type
TENSOR_TYPE_CODE(np) ==
  CASE np = "int8" -> "INT8"
    [] np = "int16" -> "INT16"
    [] np = "int32" -> "INT32"
    [] np = "int64" -> "INT64"
    [] np = "float32" -> "FLOAT32"

DTypeBits(dtype) == IF dtype = "int32" THEN 32 ELSE 64

FNeg(a) ==
  Once1(a, LAMBDA x :
    IF x.k = "nan" \/ FIsZero(x) THEN x ELSE [x EXCEPT !.s = 1 - x.s])

\* the array of F(v[1]), ..., F(v[n]), each computed once
ArrayOf(v, F(_)) == [i \in DOMAIN v |-> F(v[i])] \o << >>

\* np.clip(x, lo, hi) = minimum(maximum(x, lo), hi); a nan stays a nan
NpClip(x, lo, hi) ==
  IF x.k = "nan" THEN x
  ELSE IF FLt(x, lo) THEN (IF FGt(lo, hi) THEN hi ELSE lo)
  ELSE IF FGt(x, hi) THEN hi
  ELSE x

\* Python's max(a, b): b only when b > a
PyMax(a, b) == Once2(a, b, LAMBDA x, y : IF FGt(y, x) THEN y ELSE x)

\* vals.max() of an empty array raises ValueError; the bounds are Python
\* ints, which np.clip converts to float64
clip_range(vals, bit_width) ==
  Once3(vals, FFromS(IntMin(bit_width)), FFromS(IntMax(bit_width)),
        LAMBDA x, min_val, max_val :
          IF x = << >> THEN [err |-> "ValueError", v |-> << >>]
          ELSE [err |-> "none",
                v |-> ArrayOf(x, LAMBDA e : NpClip(e, min_val, max_val))])

\* quantize_data with the zero point forgotten
quantize_data_no_zero_point(data, scale, zero_point, bit_width) ==
  Once2(data, scale, LAMBDA x, s :
    clip_range(ArrayOf(x, LAMBDA e : FRint(FDiv(e, s))), bit_width))

quantize_data(data, scale, zero_point, bit_width) ==
  Once3(data, scale, FFromInt(zero_point), LAMBDA x, s, z :
    clip_range(ArrayOf(x, LAMBDA e : FAdd(FRint(FDiv(e, s)), z)), bit_width))

\* quantized_data - zero_point is computed in the array's own type: an
\* integer array wraps around at its width, a float array rounds
dequantize_data(quantized_data, scale, zero_point) ==
  Once3(quantized_data, scale, zero_point, LAMBDA q, s, z :
    IF q.dtype = "float64"
    THEN Once1(FNeg(FFromInt(z)), LAMBDA nz :
           ArrayOf(q.v, LAMBDA e : FMul(s, FAdd(e, nz))))
    ELSE Once1(SFromInt(z), LAMBDA sz :
           ArrayOf(q.v, LAMBDA e :
             FMul(s, FFromS(SWrap(SSub(e, sz), DTypeBits(q.dtype)))))))

MAX_INT8 == 128
MIN_INT8 == -128
MIN_INT16 == -32767

\* Settings8to16 with 127 for the upper 8-bit bound
Settings8to16_upper_127(tensor) ==
  Once2(PyAt(tensor.quantization.scale, 0), PyAt(tensor.quantization.zeroPoint, 0),
        LAMBDA scale, zero_point :
          Once2(FMul(scale, FFromInt(127 - zero_point)),
                FMul(scale, FFromInt(-128 - zero_point)),
                LAMBDA rmax, rmin :
                  [tensor EXCEPT
                     !.quantization.scale =
                        <<FDiv(PyMax(FAbs(rmax), FAbs(rmin)), FFromInt(32767))>>,
                     !.quantization.zeroPoint = <<0>>]))

\* the tensor with its quantization replaced by the 16-bit one: the scale
\* that spreads the larger of |rmax| and |rmin| over 32767 steps
Settings8to16(tensor) ==
  Once2(PyAt(tensor.quantization.scale, 0), PyAt(tensor.quantization.zeroPoint, 0),
        LAMBDA scale, zero_point :
          Once2(FMul(scale, FFromInt(MAX_INT8 - zero_point)),
                FMul(scale, FFromInt(MIN_INT8 - zero_point)),
                LAMBDA rmax, rmin :
                  [tensor EXCEPT
                     !.quantization.scale =
                        <<FDiv(PyMax(FAbs(rmax), FAbs(rmin)), FFromInt(-MIN_INT16))>>,
                     !.quantization.zeroPoint = <<0>>]))

change_quantization_settings_8to16(st, t) ==
  Once2(st, t, LAMBDA s, i :
    IF PyAt(s.tensors, i).quantization.quantizedDimension # 0
    THEN [s EXCEPT !.err = "RuntimeError"]
    ELSE [s EXCEPT !.tensors = PySet(s.tensors, i, Settings8to16(PyAt(s.tensors, i)))])

\* what F makes of the model s, unless an exception is already on its way
\* out of the function
Unless(s, F(_)) == Once1(s, LAMBDA x : IF x.err # "none" THEN x ELSE F(x))

\* the model with the type of tensor t set
SetType(s, t, type) ==
  [s EXCEPT !.tensors = PySet(s.tensors, t, [PyAt(s.tensors, t) EXCEPT !.type = type])]

\* change_activation_tensor_8to16 without the test of the type
change_activation_tensor_8to16_any_type(st, t) ==
  Once2(st, t, LAMBDA s, i :
    Unless(change_quantization_settings_8to16(s, i),
           LAMBDA s1 : SetType(s1, i, TENSOR_TYPE_CODE("int16"))))

change_activation_tensor_8to16(st, t) ==
  Once2(st, t, LAMBDA s, i :
    IF PyAt(s.tensors, i).type = TENSOR_TYPE_CODE("int8")
    THEN Unless(change_quantization_settings_8to16(s, i),
                LAMBDA s1 : SetType(s1, i, TENSOR_TYPE_CODE("int16")))
    ELSE s)

\* np.frombuffer(data, dtype=np.int32): little-endian groups of four bytes
FromBufferInt32(bytes) ==
  Once1(bytes, LAMBDA x :
    [i \in 1..(Len(x) \div 4) |->
       SWrap(SInt(0, BFromBytes(SubSeq(x, 4 * i - 3, 4 * i))), 32)] \o << >>)

\* float64 -> int64 as .astype(np.int64) does it: a value the type holds is
\* truncated; for any other the C conversion is undefined, and ub is what the
\* build produces: "indefinite" (x86: always -2^63) or "saturate" (ARM)
AstypeInt64(x, ub) ==
  Once1(x, LAMBDA v :
    IF v.k = "fin" /\ InIntRange(FToS(v), 64) THEN FToS(v)
    ELSE IF ub = "indefinite" THEN IntMin(64)
    ELSE IF v.k = "nan" THEN SInt(0, << >>)
    ELSE IF v.s = 1 THEN IntMin(64) ELSE IntMax(64))

\* int64_data.tobytes(): eight little-endian bytes for each element
ToBytesInt64(vals) ==
  Once1(ArrayOf(vals, LAMBDA e : BToBytes(SUnsigned(e, 64), 8)), LAMBDA bs :
    [i \in 1..(8 * Len(bs)) |-> bs[((i - 1) \div 8) + 1][((i - 1) % 8) + 1]] \o << >>)

\* the bias tensor b and its buffer rewritten with the quantized array q
StoreBias(s, bias, b, q, bias_scale_int64, bias_zero_pt_int64, ub) ==
  IF q.err # "none" THEN [s EXCEPT !.err = q.err]
  ELSE [s EXCEPT
          !.buffers = PySet(s.buffers, b.buffer,
             [PyAt(s.buffers, b.buffer) EXCEPT
                !.data = ToBytesInt64(ArrayOf(q.v, LAMBDA e : AstypeInt64(e, ub)))]),
          !.tensors = PySet(s.tensors, bias,
             [b EXCEPT !.type = TENSOR_TYPE_CODE("int64"),
                       !.quantization.scale = <<bias_scale_int64>>,
                       !.quantization.zeroPoint = <<bias_zero_pt_int64>>])]

\* the scale of the 64-bit bias: input scale times weight scale
BiasScaleInt64(s, input, weight) ==
  FMul(PyAt(PyAt(s.tensors, input).quantization.scale, 0),
       PyAt(PyAt(s.tensors, weight).quantization.scale, 0))

set_bias_type_int64(st, input, weight, bias, ub) ==
  Once2(st, PyAt(st.tensors, bias), LAMBDA s, b :
    IF Len(PyAt(s.buffers, b.buffer).data) % 4 # 0
    THEN [s EXCEPT !.err = "ValueError"]
    ELSE Once2(dequantize_data(
                 [dtype |-> "int32",
                  v |-> FromBufferInt32(PyAt(s.buffers, b.buffer).data)],
                 PyAt(b.quantization.scale, 0), PyAt(b.quantization.zeroPoint, 0)),
               BiasScaleInt64(s, input, weight),
               LAMBDA dequantized_data, bias_scale_int64 :
                 Once1(quantize_data(dequantized_data, bias_scale_int64, 0, 64),
                       LAMBDA q :
                         StoreBias(s, bias, b, q, bias_scale_int64, 0, ub))))

\* requantize_fully_connected with the bias retyped before the activations
requantize_fully_connected_bias_first(st, op, ub) ==
  Unless(IF PyAt(op.inputs, 2) # -1
         THEN set_bias_type_int64(st, PyAt(op.inputs, 0), PyAt(op.inputs, 1),
                                  PyAt(op.inputs, 2), ub)
         ELSE st,
         LAMBDA s1 :
           Unless(change_activation_tensor_8to16(s1, PyAt(op.inputs, 0)), LAMBDA s2 :
             change_activation_tensor_8to16(s2, PyAt(op.outputs, 0))))

\* requantize_fully_connected without the test for an absent bias
requantize_fully_connected_no_sentinel(st, op, ub) ==
  Unless(change_activation_tensor_8to16(st, PyAt(op.inputs, 0)), LAMBDA s1 :
    Unless(change_activation_tensor_8to16(s1, PyAt(op.outputs, 0)), LAMBDA s2 :
      set_bias_type_int64(s2, PyAt(op.inputs, 0), PyAt(op.inputs, 1),
                          PyAt(op.inputs, 2), ub)))

requantize_fully_connected(st, op, ub) ==
  Unless(change_activation_tensor_8to16(st, PyAt(op.inputs, 0)), LAMBDA s1 :
    Unless(change_activation_tensor_8to16(s1, PyAt(op.outputs, 0)), LAMBDA s2 :
      IF PyAt(op.inputs, 2) # -1
      THEN set_bias_type_int64(s2, PyAt(op.inputs, 0), PyAt(op.inputs, 1),
                               PyAt(op.inputs, 2), ub)
      ELSE s2))

input_weights_idx == <<1, 2, 3, 4>>
recurrent_weights_idx == <<5, 6, 7, 8>>
bias_idx == <<12, 13, 14, 15>>

\* the loop over zip(input_weights_idx, bias_idx), from its k-th pair on
RECURSIVE LstmBiases(_, _, _, _)
LstmBiases(st, op, k, ub) ==
  IF k > Len(input_weights_idx) THEN st
  ELSE Unless(set_bias_type_int64(st, PyAt(op.inputs, 0),
                                  PyAt(op.inputs, input_weights_idx[k]),
                                  PyAt(op.inputs, bias_idx[k]), ub),
              LAMBDA s1 : LstmBiases(s1, op, k + 1, ub))

\* the closing loop over recurrent_weights_idx only reads tensors
requantize_unidirectional_sequence_lstm(st, op, ub) ==
  Unless(change_activation_tensor_8to16(st, PyAt(op.inputs, 0)), LAMBDA s1 :
    Unless(change_activation_tensor_8to16(s1, PyAt(op.inputs, 18)), LAMBDA s2 :
      Unless(change_activation_tensor_8to16(s2, PyAt(op.outputs, 0)), LAMBDA s3 :
        LstmBiases(s3, op, 1, ub))))

\* the scale 1 / 32767 of the symmetric narrow range
SoftmaxScale_32767 == FDiv(FFromInt(1), FFromInt(32767))

\* 1 / 32768 = 2^-15
SoftmaxScale == Fin(0, BPow2(52), -67)

\* the softmax output retyped, its scale fixed
SoftmaxOutput(tensor) ==
  [tensor EXCEPT !.quantization.scale = <<SoftmaxScale>>,
                 !.quantization.zeroPoint = <<0>>,
                 !.type = TENSOR_TYPE_CODE("int16")]

requantize_softmax(st, op, ub) ==
  Unless(change_activation_tensor_8to16(st, PyAt(op.inputs, 0)), LAMBDA s1 :
    IF PyAt(s1.tensors, PyAt(op.outputs, 0)).type = TENSOR_TYPE_CODE("int8")
    THEN [s1 EXCEPT !.tensors = PySet(s1.tensors, PyAt(op.outputs, 0),
            SoftmaxOutput(PyAt(s1.tensors, PyAt(op.outputs, 0))))]
    ELSE s1)

(***************************************************************************)
(* State.  num is the arithmetic in progress when quantize_data and        *)
(* dequantize_data are called on their own; st is the model graph being    *)
(* converted (tensors, buffers, and the exception raised if any), ops its  *)
(* operators, done the operators already requantized, st0 the graph as     *)
(* loaded, last the call made last and before the graph as it was then.    *)
(***************************************************************************)
VARIABLES num, st, ops, done, st0, last, before

vars == <<num, st, ops, done, st0, last, before>>

\* float64 literals
D1_0 == Fin(0, <<0, 0, 0, 128>>, -52)                \* 1.0
D0_5 == Fin(0, <<0, 0, 0, 128>>, -53)                \* 0.5
D0_1 == Fin(0, <<6554, 13107, 26214, 204>>, -56)     \* 0.1
D0_2 == Fin(0, <<6554, 13107, 26214, 204>>, -55)     \* 0.2
D0_05 == Fin(0, <<6554, 13107, 26214, 204>>, -57)    \* 0.05
D0_02 == Fin(0, <<5243, 3932, 27525, 163>>, -58)     \* 0.02
D1em6 == Fin(0, <<28045, 16747, 7134, 134>>, -72)    \* 1e-6
DTiny == Fin(0, <<1>>, -1074)                        \* 5e-324, the least
DHuge == Fin(0, <<32767, 32767, 32767, 255>>, 971)   \* 1.7976931348623157e308
D1000 == Fin(0, <<0, 0, 0, 250>>, -43)               \* 1000.0
D12_5 == Fin(0, <<0, 0, 0, 200>>, -49)               \* 12.5
D1e19 == Fin(0, <<15616, 16674, 25489, 138>>, 11)    \* 1e19

NoArray == [dtype |-> "none", v |-> << >>]
NoResult == [err |-> "none", v |-> << >>]
NoModel == [tensors |-> << >>, buffers |-> << >>, err |-> "none"]
NoCall == [fn |-> "none", arg |-> 0, ub |-> "none", err |-> "none",
           repeat |-> FALSE, n |-> 0]
NoNum == [pc |-> "idle", src |-> "none", q |-> NoArray, data |-> << >>,
          scale |-> FZero, zero_point |-> 0, bit_width |-> 0, out |-> NoResult]

\* every sequence over S of a length from lo to hi
SeqsOf(S, lo, hi) == UNION {[1..n -> S] : n \in lo..hi}

(***************************************************************************)
(* The arithmetic on its own: quantize_data on an array of reals, or       *)
(* dequantize_data on an array of integers followed by quantize_data.      *)
(***************************************************************************)
MaxLen == 2

QBits == {8, 16, 32, 64}
QScales == {D1_0, D0_1, DTiny, DHuge}
QRealScales == {D1_0, D0_1}
QZeroPoints == {0, 10}
QReals == {D1000, FNeg(D1000), D12_5, D1e19}

\* integers strictly inside the range of the width; 2^53 + 1 is the least
\* positive integer that no float64 holds
QInts(bits) ==
  {SAdd(IntMin(bits), SFromInt(1)), SFromInt(-5), SFromInt(0),
   SSub(IntMax(bits), SFromInt(1))}
  \cup (IF bits = 64 THEN {SInt(0, BAdd(BPow2(53), BOne))} ELSE {})

StrictlyInside(x, bits) ==
  SCmp(x, IntMin(bits)) > 0 /\ SCmp(x, IntMax(bits)) < 0

\* the integer arrays of either type that hold exactly the values meant
QArrays(bits) ==
  {[dtype |-> dtype, v |-> v] :
     dtype \in {"int64"} \cup (IF bits <= 32 THEN {"int32"} ELSE {}),
     v \in SeqsOf(QInts(bits), 1, MaxLen)}
  \cup {[dtype |-> "float64", v |-> [i \in DOMAIN v |-> FFromS(v[i])]] :
          v \in SeqsOf({x \in QInts(bits) : FToS(FFromS(x)) = x}, 1, MaxLen)}

InitQ ==
  /\ \E bits \in QBits, scale \in QScales, zp \in QZeroPoints :
       \/ \E data \in SeqsOf(QReals, 0, MaxLen) :
            /\ scale \in QRealScales
            /\ num = [pc |-> "start", src |-> "real", q |-> NoArray, data |-> data,
                   scale |-> scale, zero_point |-> zp, bit_width |-> bits,
                   out |-> NoResult]
       \/ \E q \in QArrays(bits) :
            num = [pc |-> "start", src |-> "int", q |-> q, data |-> << >>,
                   scale |-> scale, zero_point |-> zp, bit_width |-> bits,
                   out |-> NoResult]
  /\ st = NoModel /\ ops = << >> /\ done = {} /\ st0 = NoModel
  /\ last = NoCall /\ before = NoModel

Dequantize ==
  /\ num.pc = "start" /\ num.src = "int"
  /\ num' = [num EXCEPT !.pc = "dequantized",
               !.data = dequantize_data(num.q, num.scale, num.zero_point)]
  /\ UNCHANGED <<st, ops, done, st0, last, before>>

Quantize ==
  /\ \/ num.pc = "start" /\ num.src = "real"
     \/ num.pc = "dequantized"
  /\ num' = [num EXCEPT !.pc = "quantized",
               !.out = quantize_data(num.data, num.scale, num.zero_point,
                                     num.bit_width)]
  /\ UNCHANGED <<st, ops, done, st0, last, before>>

NextQ == Dequantize \/ Quantize

SpecQ == InitQ /\ [][NextQ]_vars

(***************************************************************************)
(* The retyping functions called on their own, on the tensors of one       *)
(* fully-connected layer: tensor 0 its input activation, tensor 1 its      *)
(* weight, tensor 2 its int32 bias, whose data is buffer 1.  An exception  *)
(* ends the call, not the caller: last.err records it.                     *)
(***************************************************************************)
MaxCalls == 2

Tensor(type, scale, zeroPoint, quantizedDimension, buffer) ==
  [type |-> type, buffer |-> buffer,
   quantization |-> [scale |-> <<scale>>, zeroPoint |-> <<zeroPoint>>,
                     quantizedDimension |-> quantizedDimension]]

Buffer(data) == [data |-> data]

\* the bytes of an int32 array
BytesInt32(vals) ==
  Once1(ArrayOf(vals, LAMBDA e : BToBytes(SUnsigned(SFromInt(e), 32), 4)), LAMBDA bs :
    [i \in 1..(4 * Len(bs)) |-> bs[((i - 1) \div 4) + 1][((i - 1) % 4) + 1]] \o << >>)

ActTypes == {"INT8", "INT16"}
ActScales == {D0_5, D0_1, D1em6}
ActZeroPoints == {10, -128}
WeightScales == {D0_2, D1em6}
\* the int32 values of a bias and its zero point
BiasCases == {<<<<5, -5>>, 0>>, <<<<2147483647, -2147483647 - 1>>, 3>>}

InitUnit ==
  /\ \E ty \in ActTypes, s \in ActScales, z \in ActZeroPoints, qd \in {0, 1},
        ws \in WeightScales, bc \in BiasCases :
       st = [tensors |-> <<Tensor(ty, s, z, qd, 0),
                           Tensor("INT8", ws, 0, 0, 0),
                           Tensor("INT32", D0_05, bc[2], 0, 1)>>,
             buffers |-> <<Buffer(<< >>), Buffer(BytesInt32(bc[1]))>>,
             err |-> "none"]
  /\ before = st /\ last = NoCall
  /\ num = NoNum /\ ops = << >> /\ done = {} /\ st0 = NoModel

Called(fn, arg, ub, res) ==
  /\ st' = [res EXCEPT !.err = "none"]
  /\ before' = st
  /\ last' = [fn |-> fn, arg |-> arg, ub |-> ub, err |-> res.err,
              repeat |-> (last.fn = fn /\ last.arg = arg), n |-> last.n + 1]
  /\ UNCHANGED <<num, ops, done, st0>>

CallChangeActivation ==
  /\ last.n < MaxCalls
  /\ Called("change_activation_tensor_8to16", 0, "none",
            change_activation_tensor_8to16(st, 0))

CallSetBias ==
  /\ last.n < MaxCalls
  /\ \E ub \in {"indefinite", "saturate"} :
       Called("set_bias_type_int64", 2, ub, set_bias_type_int64(st, 0, 1, 2, ub))

NextUnit == CallChangeActivation \/ CallSetBias

SpecUnit == InitUnit /\ [][NextUnit]_vars

(***************************************************************************)
(* The conversion of a model: every supported operator of the graph is     *)
(* requantized once, by the function of its kind, in no fixed order, and   *)
(* an exception ends the conversion with the model as it then is.  Tensors *)
(* 0, 3, 4 and 9 are activations, 1 and 8 weights, 2, 5, 6 and 7 int32     *)
(* biases with the buffers 1 to 4.  last.ub is what this build makes of an *)
(* undefined float -> int64 conversion.                                    *)
(***************************************************************************)
MaxOps == 2

Operator(kind, inputs, outputs) ==
  [kind |-> kind, inputs |-> inputs, outputs |-> outputs]

FullyConnected(inputs, outputs) == Operator("FULLY_CONNECTED", inputs, outputs)
Softmax(inputs, outputs) == Operator("SOFTMAX", inputs, outputs)

\* the inputs of the one LSTM: input 0, input weights 1-4, recurrent weights
\* 5-8, biases 12-15, hidden state 18; -1 where an optional input is absent
LstmInputs == <<0, 1, 8, 1, 8, 1, 8, 1, 8, -1, -1, -1, 2, 5, 6, 7, -1, -1, 4>>
Lstm == Operator("UNIDIRECTIONAL_SEQUENCE_LSTM", LstmInputs, <<3>>)

DenseSoftmax == <<FullyConnected(<<0, 1, 2>>, <<3>>), Softmax(<<3>>, <<4>>)>>
\* the output of the softmax is the input of the dense layer
SoftmaxDense == <<Softmax(<<4>>, <<0>>), FullyConnected(<<0, 1, 2>>, <<3>>)>>
DenseNoBias == <<FullyConnected(<<0, 1, -1>>, <<3>>), Softmax(<<3>>, <<4>>)>>
LstmDense == <<Lstm, FullyConnected(<<3, 8, -1>>, <<9>>)>>
TwoDense == <<FullyConnected(<<0, 1, 2>>, <<3>>), FullyConnected(<<3, 8, 5>>, <<4>>)>>
\* the weight of the first layer is the input activation of the second
WeightFromDense ==
  <<FullyConnected(<<0, 3, 2>>, <<4>>), FullyConnected(<<3, 1, -1>>, <<9>>)>>
ThreeLayers ==
  <<FullyConnected(<<0, 1, 2>>, <<3>>), FullyConnected(<<3, 8, 5>>, <<4>>),
    Softmax(<<4>>, <<9>>)>>

Graphs ==
  {g \in {DenseSoftmax, SoftmaxDense, DenseNoBias, LstmDense, TwoDense,
          WeightFromDense, ThreeLayers} : Len(g) <= MaxOps}

\* scale and zero point of tensor 0
ActParams == {<<D0_5, 10>>, <<D1em6, -128>>}
\* the tensor quantized per channel, -1 for none
PerChannel == {-1, 0, 2, 4}

Init ==
  /\ \E g \in Graphs, ty \in ActTypes, a \in ActParams, pc \in PerChannel,
        bc \in BiasCases, ub \in {"indefinite", "saturate"} :
       LET qd(t) == IF t = pc THEN 1 ELSE 0
           bias == Buffer(BytesInt32(bc[1]))
       IN  /\ ops = g
           /\ st = [tensors |-> <<Tensor(ty, a[1], a[2], qd(0), 0),
                                  Tensor("INT8", D0_2, 0, 0, 0),
                                  Tensor("INT32", D0_05, bc[2], qd(2), 1),
                                  Tensor("INT8", D0_1, 10, 0, 0),
                                  Tensor("INT8", D0_5, -128, qd(4), 0),
                                  Tensor("INT32", D0_05, bc[2], 0, 2),
                                  Tensor("INT32", D0_05, bc[2], 0, 3),
                                  Tensor("INT32", D0_05, bc[2], 0, 4),
                                  Tensor("INT8", D1em6, 0, 0, 0),
                                  Tensor("INT8", D0_1, -128, 0, 0)>>,
                    buffers |-> <<Buffer(<< >>), bias, bias, bias, bias>>,
                    err |-> "none"]
           /\ last = [NoCall EXCEPT !.ub = ub]
  /\ st0 = st /\ before = st /\ done = {} /\ num = NoNum

\* operator o is still to be requantized, and no exception has ended the
\* conversion
Pending(o) == o \in DOMAIN ops /\ o \notin done /\ st.err = "none"

\* operator o requantized, with res the model it leaves
Requantized(o, res) ==
  /\ st' = res
  /\ before' = st
  /\ done' = done \cup {o}
  /\ last' = [fn |-> ops[o].kind, arg |-> o, ub |-> last.ub, err |-> st'.err,
              repeat |-> FALSE, n |-> last.n + 1]
  /\ UNCHANGED <<num, ops, st0>>

RequantizeFullyConnected ==
  \E o \in DOMAIN ops :
    /\ Pending(o) /\ ops[o].kind = "FULLY_CONNECTED"
    /\ Requantized(o, requantize_fully_connected(st, ops[o], last.ub))

RequantizeLstm ==
  \E o \in DOMAIN ops :
    /\ Pending(o) /\ ops[o].kind = "UNIDIRECTIONAL_SEQUENCE_LSTM"
    /\ Requantized(o, requantize_unidirectional_sequence_lstm(st, ops[o], last.ub))

RequantizeSoftmax ==
  \E o \in DOMAIN ops :
    /\ Pending(o) /\ ops[o].kind = "SOFTMAX"
    /\ Requantized(o, requantize_softmax(st, ops[o], last.ub))

Next == RequantizeFullyConnected \/ RequantizeLstm \/ RequantizeSoftmax

Spec == Init /\ [][Next]_vars

\* the value quantize_data clips: round(data / scale) + zero_point
QUnclipped(i) ==
  FAdd(FRint(FDiv(num.data[i], num.scale)), FFromInt(num.zero_point))

FAboveS(v, n) == (v.k = "inf" /\ v.s = 0) \/ (v.k = "fin" /\ SCmp(FToS(v), n) > 0)
FBelowS(v, n) == (v.k = "inf" /\ v.s = 1) \/ (v.k = "fin" /\ SCmp(FToS(v), n) < 0)
FEqualsS(v, n) == FIsInteger(v) /\ FToS(v) = n

\* C1: whenever quantize_data returns, every value it returns lies in
\* [-2^(b-1), 2^(b-1)-1]: a value of round(data/scale)+zero_point above the
\* range has become exactly 2^(b-1)-1, one below exactly -2^(b-1), and one
\* inside the range is returned as it is.
C1_QuantizeClampsIntoRange ==
  (num.pc = "quantized" /\ num.src = "real" /\ num.out.err = "none") =>
    \A i \in DOMAIN num.data :
      LET v  == QUnclipped(i)
          r  == num.out.v[i]
          lo == IntMin(num.bit_width)
          hi == IntMax(num.bit_width)
      IN  /\ FIsInteger(r)
          /\ InIntRange(FToS(r), num.bit_width)
          /\ FAboveS(v, hi) => FEqualsS(r, hi)
          /\ FBelowS(v, lo) => FEqualsS(r, lo)
          /\ (~FAboveS(v, hi) /\ ~FBelowS(v, lo)) => r = v

\* the integer that element i of the array given to dequantize_data stands for
QVal(i) == IF num.q.dtype = "float64" THEN FToS(num.q.v[i]) ELSE num.q.v[i]

QNoWrap(i) ==
  num.q.dtype = "float64"
  \/ InIntRange(SSub(QVal(i), SFromInt(num.zero_point)), DTypeBits(num.q.dtype))

Int64At(bytes, k) == SWrap(SInt(0, BFromBytes(SubSeq(bytes, 8 * k - 7, 8 * k))), 64)

\* what the claim says the bias buffer holds: quantize(dequantize(old int32
\* values, old bias scale, old bias zero point), input scale * weight scale, 0, 64)
BiasExpected ==
  LET b == PyAt(before.tensors, 2)
  IN  quantize_data(
        dequantize_data([dtype |-> "int32",
                         v |-> FromBufferInt32(PyAt(before.buffers, b.buffer).data)],
                        PyAt(b.quantization.scale, 0),
                        PyAt(b.quantization.zeroPoint, 0)),
        FMul(PyAt(PyAt(before.tensors, 0).quantization.scale, 0),
             PyAt(PyAt(before.tensors, 1).quantization.scale, 0)),
        0, 64)

\* C2: after set_bias_type_int64 the bias buffer holds as many elements as
\* before, each equal to quantize(dequantize(old int32 value, old bias
\* scale, old bias zero point), input scale * weight scale, 0, 64), stored as
\* a 64-bit signed integer.
C2_BiasBufferRequantized ==
  (last.fn = "set_bias_type_int64" /\ last.err = "none") =>
    LET old  == PyAt(before.buffers, 1).data
        new  == PyAt(st.buffers, 1).data
    IN  /\ Len(new) = 8 * (Len(old) \div 4)
        /\ \A i \in 1..(Len(old) \div 4) :
             FEqualsS(BiasExpected.v[i], Int64At(new, i))

\* the int32 bias [5, -5] at scale 0.05 and zero point 0, under an input of
\* scale 0.1 and a weight of scale 0.2
BiasExample ==
  /\ last.fn = "set_bias_type_int64"
  /\ PyAt(before.tensors, 0).quantization.scale = <<D0_1>>
  /\ PyAt(before.tensors, 1).quantization.scale = <<D0_2>>
  /\ PyAt(before.tensors, 2).type = "INT32"
  /\ PyAt(before.tensors, 2).quantization.zeroPoint = <<0>>
  /\ PyAt(before.buffers, 1).data = BytesInt32(<<5, -5>>)

\* C2, its example: with input scale 0.1, weight scale 0.2 and the int32
\* bias [5, -5] at scale 0.05 and zero point 0, the new bias scale is 0.02,
\* the new zero point 0 and the 64-bit buffer [13, -13].
C2_BiasExampleAsStated ==
  BiasExample =>
    /\ PyAt(st.tensors, 2).quantization.scale = <<D0_02>>
    /\ PyAt(st.tensors, 2).quantization.zeroPoint = <<0>>
    /\ PyAt(st.buffers, 1).data
         = ToBytesInt64(<<SFromInt(13), SFromInt(-13)>>)

\* C2, what the example comes to: 0.1 * 0.2 is 0.020000000000000004 in
\* float64, 0.25 divided by it lies below 12.5, and the buffer is [12, -12].
C2_BiasExampleAsComputed ==
  BiasExample =>
    /\ PyAt(st.tensors, 2).type = "INT64"
    /\ PyAt(st.tensors, 2).quantization.scale
         = <<Fin(0, <<5244, 3932, 27525, 163>>, -58)>>
    /\ PyAt(st.tensors, 2).quantization.zeroPoint = <<0>>
    /\ PyAt(st.buffers, 1).data
         = ToBytesInt64(<<SFromInt(12), SFromInt(-12)>>)

\* C4: change_activation_tensor_8to16 of an int8 tensor with
\* quantizedDimension 0, scale s and zero point z leaves it with type int16,
\* zeroPoint [0] and scale [max(|s*(128 - z)|, |s*(-128 - z)|) / 32767];
\* s = 0.5 and z = 10 give 69/32767.
C4_ActivationRetyped ==
  (/\ last.fn = "change_activation_tensor_8to16"
   /\ PyAt(before.tensors, 0).type = "INT8"
   /\ PyAt(before.tensors, 0).quantization.quantizedDimension = 0) =>
    LET s == PyAt(PyAt(before.tensors, 0).quantization.scale, 0)
        z == PyAt(PyAt(before.tensors, 0).quantization.zeroPoint, 0)
        t == PyAt(st.tensors, 0)
    IN  /\ last.err = "none"
        /\ t.type = "INT16"
        /\ t.quantization.zeroPoint = <<0>>
        /\ t.quantization.scale =
             <<FDiv(PyMax(FAbs(FMul(s, FFromInt(128 - z))),
                          FAbs(FMul(s, FFromInt(-128 - z)))),
                    FFromInt(32767))>>
        /\ (s = D0_5 /\ z = 10) =>
             t.quantization.scale = <<FDiv(FFromInt(69), FFromInt(32767))>>

\* an int8 tensor of scale 0.5 and zero point 10 retyped: int16, scale
\* 69/32767 = 0.0021057771538438063
C4_Witness ==
  /\ last.fn = "change_activation_tensor_8to16"
  /\ PyAt(before.tensors, 0).type = "INT8"
  /\ PyAt(before.tensors, 0).quantization
       = [scale |-> <<D0_5>>, zeroPoint |-> <<10>>, quantizedDimension |-> 0]
  /\ PyAt(st.tensors, 0).type = "INT16"
  /\ PyAt(st.tensors, 0).quantization.scale = <<Fin(0, <<138, 138, 138, 138>>, -61)>>

\* C5: applying change_activation_tensor_8to16 a second time leaves the
\* type, scale and zero point the first application left, and applying it
\* to a tensor whose type is not int8 changes nothing and raises nothing.
C5_ActivationRetypingIdempotent ==
  last.fn = "change_activation_tensor_8to16" =>
    /\ last.repeat =>
         /\ PyAt(st.tensors, 0).type = PyAt(before.tensors, 0).type
         /\ PyAt(st.tensors, 0).quantization = PyAt(before.tensors, 0).quantization
    /\ PyAt(before.tensors, 0).type # "INT8" => (st = before /\ last.err = "none")

\* a second application to the tensor the first had retyped from scale 0.5
\* and zero point 10
C5_Witness ==
  /\ last.fn = "change_activation_tensor_8to16" /\ last.repeat
  /\ PyAt(before.tensors, 0).type = "INT16"
  /\ PyAt(before.tensors, 0).quantization.scale = <<Fin(0, <<138, 138, 138, 138>>, -61)>>
  /\ st = before

(***************************************************************************)
(* The tensors an operator names, by role.                                 *)
(***************************************************************************)
OperatorKinds == {"FULLY_CONNECTED", "UNIDIRECTIONAL_SEQUENCE_LSTM", "SOFTMAX"}

\* <<weight, bias>> for every bias the operator has
BiasPairs(op) ==
  IF op.kind = "FULLY_CONNECTED"
  THEN (IF PyAt(op.inputs, 2) # -1
        THEN {<<PyAt(op.inputs, 1), PyAt(op.inputs, 2)>>} ELSE {})
  ELSE IF op.kind = "UNIDIRECTIONAL_SEQUENCE_LSTM"
  THEN {<<PyAt(op.inputs, k), PyAt(op.inputs, k + 11)>> : k \in 1..4}
  ELSE {}

Biases(op) == {p[2] : p \in BiasPairs(op)}
Weights(op) == {p[1] : p \in BiasPairs(op)}

\* the tensors given to activation retyping
Activations(op) ==
  IF op.kind = "FULLY_CONNECTED" THEN {PyAt(op.inputs, 0), PyAt(op.outputs, 0)}
  ELSE IF op.kind = "UNIDIRECTIONAL_SEQUENCE_LSTM"
  THEN {PyAt(op.inputs, 0), PyAt(op.inputs, 18), PyAt(op.outputs, 0)}
  ELSE {PyAt(op.inputs, 0)}

SoftmaxOutputs(op) == IF op.kind = "SOFTMAX" THEN {PyAt(op.outputs, 0)} ELSE {}

Touched(op) == Activations(op) \cup SoftmaxOutputs(op) \cup Biases(op)

ScaleOf(s, t) == PyAt(PyAt(s.tensors, t).quantization.scale, 0)
PerChannelIn(s, t) == PyAt(s.tensors, t).quantization.quantizedDimension # 0

\* C3: requantizing an operator raises the fatal error whenever a tensor the
\* operator touches (input activation, hidden state, output activation,
\* softmax output or bias) has quantizedDimension # 0, and an activation
\* with quantizedDimension # 0 is not mutated.
C3_PerChannelAborts ==
  (/\ last.fn \in OperatorKinds
   /\ \E t \in Touched(ops[last.arg]) : PerChannelIn(before, t)) =>
    /\ last.err = "RuntimeError"
    /\ \A t \in Activations(ops[last.arg]) :
         PerChannelIn(before, t) => PyAt(st.tensors, t) = PyAt(before.tensors, t)

\* C6: after a fully-connected or LSTM operator is requantized, each of its
\* biases has type int64, zero point 0 and the scale (input tensor's scale
\* after conversion) * (paired weight's scale), for each of the four LSTM
\* pairs too, and never the product with the input's 8-bit scale.
C6_BiasScaleFromConvertedInput ==
  (/\ last.fn \in {"FULLY_CONNECTED", "UNIDIRECTIONAL_SEQUENCE_LSTM"}
   /\ last.err = "none") =>
    LET op    == ops[last.arg]
        input == PyAt(op.inputs, 0)
    IN  \A p \in BiasPairs(op) :
          LET b == PyAt(st.tensors, p[2])
          IN  /\ b.type = "INT64"
              /\ b.quantization.zeroPoint = <<0>>
              /\ b.quantization.scale
                   = <<FMul(ScaleOf(st, input), ScaleOf(st, p[1]))>>
              /\ PyAt(before.tensors, input).type = "INT8" =>
                   b.quantization.scale
                     # <<FMul(ScaleOf(before, input), ScaleOf(before, p[1]))>>

\* an LSTM requantized from an int8 input: the bias at input 13 is int64 at
\* the converted input's scale times the scale of the weight at input 2
C6_Witness ==
  /\ last.fn = "UNIDIRECTIONAL_SEQUENCE_LSTM" /\ last.err = "none"
  /\ PyAt(before.tensors, 0).type = "INT8"
  /\ PyAt(st.tensors, 0).type = "INT16"
  /\ PyAt(st.tensors, 5).type = "INT64"
  /\ PyAt(st.tensors, 5).quantization.scale
       = <<FMul(ScaleOf(st, 0), ScaleOf(st, 8))>>

\* C7: requantizing a softmax operator (with no exception on the way) leaves
\* an int8 output tensor with scale [1/32768], zeroPoint [0] and type int16,
\* whatever its scale and zero point were, and an output tensor that is not
\* int8 unchanged.
C7_SoftmaxOutputFixed ==
  (last.fn = "SOFTMAX" /\ last.err = "none") =>
    LET out == PyAt(ops[last.arg].outputs, 0)
    IN  IF PyAt(before.tensors, out).type = "INT8"
        THEN /\ PyAt(st.tensors, out).type = "INT16"
             /\ PyAt(st.tensors, out).quantization.scale
                  = <<FDiv(FFromInt(1), FFromInt(32768))>>
             /\ PyAt(st.tensors, out).quantization.zeroPoint = <<0>>
        ELSE PyAt(st.tensors, out) = PyAt(before.tensors, out)

\* a softmax whose int8 output had scale 0.5 and zero point -128
C7_Witness ==
  /\ last.fn = "SOFTMAX" /\ last.err = "none"
  /\ PyAt(ops[last.arg].outputs, 0) = 4
  /\ PyAt(before.tensors, 4).type = "INT8"
  /\ PyAt(before.tensors, 4).quantization.scale = <<D0_5>>
  /\ PyAt(before.tensors, 4).quantization.zeroPoint = <<-128>>
  /\ PyAt(st.tensors, 4).type = "INT16"
  /\ PyAt(st.tensors, 4).quantization.scale = <<Fin(0, <<0, 0, 0, 128>>, -67)>>

\* an activation after retyping: int16 with zero point 0 if it was int8, as
\* it was otherwise
Retyped(t) ==
  IF PyAt(before.tensors, t).type = "INT8"
  THEN /\ PyAt(st.tensors, t).type = "INT16"
       /\ PyAt(st.tensors, t).quantization.zeroPoint = <<0>>
  ELSE PyAt(st.tensors, t) = PyAt(before.tensors, t)

\* C8: requantizing a fully-connected operator whose bias slot is -1 (its
\* activations quantized per layer) retypes the input and the output
\* activation, raises no error and leaves every buffer and every other
\* tensor unchanged; with or without a bias the weight tensor and its buffer
\* are not modified.
C8_DenseWithoutBias ==
  last.fn = "FULLY_CONNECTED" =>
    LET op     == ops[last.arg]
        input  == PyAt(op.inputs, 0)
        weight == PyAt(op.inputs, 1)
        output == PyAt(op.outputs, 0)
    IN  /\ (/\ PyAt(op.inputs, 2) = -1
            /\ ~PerChannelIn(before, input) /\ ~PerChannelIn(before, output)) =>
             /\ last.err = "none"
             /\ Retyped(input) /\ Retyped(output)
             /\ st.buffers = before.buffers
             /\ \A t \in 0..(Len(st.tensors) - 1) :
                  t \notin {input, output} =>
                    PyAt(st.tensors, t) = PyAt(before.tensors, t)
        /\ PyAt(st.tensors, weight) = PyAt(before.tensors, weight)
        /\ PyAt(st.buffers, PyAt(st.tensors, weight).buffer)
             = PyAt(before.buffers, PyAt(before.tensors, weight).buffer)

\* a dense layer without bias requantized: both int8 activations now int16
C8_Witness ==
  /\ last.fn = "FULLY_CONNECTED" /\ last.err = "none"
  /\ PyAt(ops[last.arg].inputs, 2) = -1
  /\ PyAt(before.tensors, PyAt(ops[last.arg].inputs, 0)).type = "INT8"
  /\ PyAt(before.tensors, PyAt(ops[last.arg].outputs, 0)).type = "INT8"
  /\ PyAt(st.tensors, PyAt(ops[last.arg].inputs, 0)).type = "INT16"
  /\ PyAt(st.tensors, PyAt(ops[last.arg].outputs, 0)).type = "INT16"
  /\ st.buffers = before.buffers

\* the operator requantized by the function of its kind
RequantizeOp(s, op, ub) ==
  CASE op.kind = "FULLY_CONNECTED" -> requantize_fully_connected(s, op, ub)
    [] op.kind = "UNIDIRECTIONAL_SEQUENCE_LSTM" ->
         requantize_unidirectional_sequence_lstm(s, op, ub)
    [] op.kind = "SOFTMAX" -> requantize_softmax(s, op, ub)

\* the model s converted in the order of the list, from operator k on
RECURSIVE RequantizeFrom(_, _, _, _)
RequantizeFrom(s, os, k, ub) ==
  IF k > Len(os) THEN s
  ELSE Unless(RequantizeOp(s, os[k], ub), LAMBDA s1 : RequantizeFrom(s1, os, k + 1, ub))

\* each bias tensor belongs to exactly one operator
BiasesOwnedOnce ==
  \A i, j \in DOMAIN ops : i # j => Biases(ops[i]) \cap Biases(ops[j]) = {}

LayerQuantized == \A t \in 0..(Len(st0.tensors) - 1) : ~PerChannelIn(st0, t)

\* C10: for a model in which each bias tensor belongs to exactly one operator
\* and all tensors have quantizedDimension 0, the converted model is the same
\* in whatever order the operators were requantized, an int8 tensor that is
\* a softmax output and a dense or LSTM input included.
C10_OrderIndependent ==
  (done = DOMAIN ops /\ BiasesOwnedOnce /\ LayerQuantized) =>
    st = RequantizeFrom(st0, ops, 1, last.ub)

\* no int8 softmax output is retyped as an activation as well
NoSoftmaxOutputShared ==
  \A i, j \in DOMAIN ops :
    \A t \in SoftmaxOutputs(ops[i]) \cap Activations(ops[j]) :
      PyAt(st0.tensors, t).type # "INT8"

\* no operator writes a tensor that a bias scale is read from or a bias
\* tensor another operator reads
NoScaleSourceWritten ==
  \A i, j \in DOMAIN ops :
    /\ Weights(ops[i]) \cap Touched(ops[j]) = {}
    /\ Biases(ops[i]) \cap (Activations(ops[j]) \cup SoftmaxOutputs(ops[j])) = {}

\* C10 as amended: the converted model is the same in whatever order the
\* operators were requantized when, besides, no int8 softmax output is an
\* activation of any operator and no weight or bias tensor is written by
\* another role.
C10_OrderIndependentUnlessShared ==
  (/\ done = DOMAIN ops /\ BiasesOwnedOnce /\ LayerQuantized
   /\ NoSoftmaxOutputShared /\ NoScaleSourceWritten) =>
    st = RequantizeFrom(st0, ops, 1, last.ub)

\* two dense layers requantized second layer first: tensor 3, the output of
\* one and the input of the other, and both biases as in list order
C10_Witness ==
  /\ ops = TwoDense /\ done = DOMAIN ops /\ last.arg = 1
  /\ LayerQuantized
  /\ PyAt(st0.tensors, 0).type = "INT8"
  /\ PyAt(st.tensors, 3).type = "INT16"
  /\ PyAt(st.tensors, 5).type = "INT64"
  /\ st = RequantizeFrom(st0, ops, 1, last.ub)

=============================================================================
